---- MODULE Spec2Model ----
(***************************************************************************)
(* Open House AR Quest: the QR detection loop, the payload validator and   *)
(* the local progress state machine of the OpenHouseAR React component.    *)
(*                                                                         *)
(* The repository holds two versions of the component:                     *)
(*   "jsx" : src/open_house_web_ar_quest_qr_based_no_app_install.jsx       *)
(*   "app" : src/unnamed/part_000                                          *)
(* Both are modelled; the variable `variant` says which one is running.    *)
(*                                                                         *)
(* Strings are tuples of one-character strings, so that trim, toUpperCase  *)
(* and replace are computed character by character as the code does.       *)
(***************************************************************************)
EXTENDS Integers, Sequences, FiniteSets, TLC

(***************************************************************************)
(* Bounds of the model                                                     *)
(***************************************************************************)
\* number of registry entries kept from the head of each STATIONS array
MaxStations == 3
\* number of runs of the useEffect([active]) effect per page load
MaxRuns == 2
\* largest value Date.now() returns
MaxClock == 2
\* number of runs of the effect per page load when the camera is studied on
\* its own: the first run, a pause and a resume
MaxCameraRuns == 3

(***************************************************************************)
(* Characters and strings                                                  *)
(***************************************************************************)
OPENHOUSE == <<"O","P","E","N","H","O","U","S","E",":">>

LowerCase == <<"a","b","c","d","e","f","g","h","i","j","k","l","m",
               "n","o","p","q","r","s","t","u","v","w","x","y","z">>
UpperCase == <<"A","B","C","D","E","F","G","H","I","J","K","L","M",
               "N","O","P","Q","R","S","T","U","V","W","X","Y","Z">>

\* the characters String.prototype.trim removes (those the inputs use)
WhiteSpace == {" ", "\t", "\n"}

IndexOf(c, t) == IF \E i \in 1..Len(t) : t[i] = c
                 THEN CHOOSE i \in 1..Len(t) : t[i] = c
                 ELSE 0

Letters == 1..Len(LowerCase)

LowerSet == {LowerCase[i] : i \in Letters}
UpperSet == {UpperCase[i] : i \in Letters}

UpperOf == [c \in LowerSet |-> UpperCase[IndexOf(c, LowerCase)]]
LowerOf == [c \in UpperSet |-> LowerCase[IndexOf(c, UpperCase)]]

toUpperCaseChar(c) == IF c \in LowerSet THEN UpperOf[c] ELSE c

toLowerCaseChar(c) == IF c \in UpperSet THEN LowerOf[c] ELSE c

toUpperCase(s) == [i \in 1..Len(s) |-> toUpperCaseChar(s[i])]

toLowerCase(s) == [i \in 1..Len(s) |-> toLowerCaseChar(s[i])]

RECURSIVE trimStart(_)
trimStart(s) == IF s # <<>> /\ Head(s) \in WhiteSpace
                THEN trimStart(Tail(s))
                ELSE s

RECURSIVE trimEnd(_)
trimEnd(s) == IF s # <<>> /\ s[Len(s)] \in WhiteSpace
              THEN trimEnd(SubSeq(s, 1, Len(s) - 1))
              ELSE s

trim(s) == trimEnd(trimStart(s))

\* payload.replace(/\\:/g, ":") : every backslash directly followed by a
\* colon is replaced by the colon, scanning left to right
RECURSIVE unescapeColon(_)
unescapeColon(s) ==
    IF s = <<>> THEN <<>>
    ELSE IF Len(s) >= 2 /\ s[1] = "\\" /\ s[2] = ":"
         THEN <<":">> \o unescapeColon(SubSeq(s, 3, Len(s)))
         ELSE <<s[1]>> \o unescapeColon(Tail(s))

(***************************************************************************)
(* Station registry                                                        *)
(***************************************************************************)
Variants == {"jsx", "app"}

STATIONS_jsx ==
    << [id |-> "ENTRANCE", code |-> OPENHOUSE \o <<"E","N","T","R","A","N","C","E">>],
       [id |-> "LIBRARY",  code |-> OPENHOUSE \o <<"L","I","B","R","A","R","Y">>],
       [id |-> "GYM",      code |-> OPENHOUSE \o <<"G","Y","M">>],
       [id |-> "SCI-LAB",  code |-> OPENHOUSE \o <<"S","C","I","-","L","A","B">>],
       [id |-> "ART",      code |-> OPENHOUSE \o <<"A","R","T">>],
       [id |-> "COUNSEL",  code |-> OPENHOUSE \o <<"C","O","U","N","S","E","L">>] >>

STATIONS_app ==
    << [id |-> "ENTRANCE", code |-> OPENHOUSE \o <<"E","N","T","R","A","N","C","E">>],
       [id |-> "LIBRARY",  code |-> OPENHOUSE \o <<"L","I","B","R","A","R","Y">>],
       [id |-> "GYM",      code |-> OPENHOUSE \o <<"G","Y","M">>] >>

Min(a, b) == IF a <= b THEN a ELSE b

\* the registry of a variant, cut to the first MaxStations entries
STATIONS(v) ==
    LET all == IF v = "jsx" THEN STATIONS_jsx ELSE STATIONS_app
    IN  SubSeq(all, 1, Min(Len(all), MaxStations))

StationIds(v) == {STATIONS(v)[i].id : i \in 1..Len(STATIONS(v))}


(***************************************************************************)
(* validatePayload                                                         *)
(***************************************************************************)
NoMatch == "no-match"

\* a faulty codeMatches: the app version without the replace(/\\:/g, ":")
codeMatches_noUnescape(v, s, payload) ==
    IF v = "jsx"
    THEN trim(s.code) = trim(payload)
    ELSE toUpperCase(trim(s.code)) = toUpperCase(trim(payload))

\* a faulty codeMatches: startsWith in place of ===
codeMatches_startsWith(v, s, payload) ==
    LET code == IF v = "jsx" THEN trim(s.code) ELSE toUpperCase(trim(s.code))
        text == IF v = "jsx" THEN trim(payload)
                ELSE toUpperCase(trim(unescapeColon(payload)))
    IN  Len(text) >= Len(code) /\ SubSeq(text, 1, Len(code)) = code

\* the predicate handed to STATIONS.find
codeMatches(v, s, payload) ==
    IF v = "jsx"
    THEN trim(s.code) = trim(payload)
    ELSE toUpperCase(trim(s.code)) = toUpperCase(trim(unescapeColon(payload)))

\* Array.prototype.find: the first element that satisfies the predicate
find(v, payload) ==
    LET hits == {i \in 1..Len(STATIONS(v)) : codeMatches(v, STATIONS(v)[i], payload)}
    IN  IF hits = {} THEN 0
        ELSE CHOOSE i \in hits : \A j \in hits : i <= j

\* a faulty validatePayload: an unregistered payload resolves to the first
\* station of the registry
validatePayload_fallsBack(v, payload) ==
    IF find(v, payload) = 0 THEN STATIONS(v)[1].id
    ELSE STATIONS(v)[find(v, payload)].id

validatePayload(v, payload) ==
    IF v = "app" /\ payload = <<>> THEN NoMatch
    ELSE IF find(v, payload) = 0 THEN NoMatch
         ELSE STATIONS(v)[find(v, payload)].id

(***************************************************************************)
(* Values                                                                  *)
(***************************************************************************)
\* null / an absent localStorage entry, and a present value
NULL == <<>>
Some(x) == <<x>>

LS_KEY_PROGRESS == "ohq_progress_v1"
LS_KEY_COMPLETED == "ohq_completed_v1"
LsKeys == {LS_KEY_PROGRESS, LS_KEY_COMPLETED}

Digits == <<"0","1","2","3","4","5","6","7","8","9">>

\* String(now): the decimal digits of a non-negative integer
RECURSIVE String(_)
String(n) == IF n < 10 THEN <<Digits[n + 1]>>
             ELSE String(n \div 10) \o <<Digits[(n % 10) + 1]>>

\* Number(saved) for a string of decimal digits
RECURSIVE Number(_)
Number(s) == IF s = <<>> THEN 0
             ELSE 10 * Number(SubSeq(s, 1, Len(s) - 1)) + (IndexOf(s[Len(s)], Digits) - 1)

\* JSON.stringify of a progress object: its <<key, value>> pairs, keys in the
\* order the object holds them (the registry order: the initialisers insert
\* the keys in registry order and the spread keeps the position of a key)
KeyOrder(v, obj) ==
    LET idx == {i \in 1..Len(STATIONS(v)) : STATIONS(v)[i].id \in DOMAIN obj}
        RECURSIVE build(_)
        build(todo) == IF todo = {} THEN <<>>
                       ELSE LET i == CHOOSE k \in todo : \A j \in todo : k <= j
                            IN  <<STATIONS(v)[i].id>> \o build(todo \ {i})
    IN  build(idx)

\* a faulty JSON.stringify: the text of the all-false object
JSONstringify_allFalse(v, obj) ==
    LET ks == KeyOrder(v, obj)
    IN  [i \in 1..Len(ks) |-> <<ks[i], FALSE>>]

JSONstringify(v, obj) ==
    LET ks == KeyOrder(v, obj)
    IN  [i \in 1..Len(ks) |-> <<ks[i], obj[ks[i]]>>]

\* JSON.parse of such a text: the object with the keys of the pairs
JSONparse(json) ==
    LET keys == {json[i][1] : i \in 1..Len(json)}
    IN  [k \in keys |->
            LET at == CHOOSE i \in 1..Len(json) :
                           /\ json[i][1] = k
                           /\ \A j \in 1..Len(json) : json[j][1] = k => j <= i
            IN  json[at][2]]

\* obj[id] used as a condition: a missing key reads undefined, which is falsy
Truthy(obj, id) == id \in DOMAIN obj /\ obj[id]

\* { ...obj, [id]: true }
SpreadTrue(obj, id) == [k \in DOMAIN obj \cup {id} |-> IF k = id THEN TRUE ELSE obj[k]]

\* Object.values(obj).every(Boolean)
everyBoolean(obj) == \A k \in DOMAIN obj : obj[k]

\* a faulty initial map: `init` without the forEach
cleared_empty(v) == [k \in {} |-> FALSE]

\* STATIONS.forEach((s) => (init[s.id] = false))
cleared(v) == [k \in StationIds(v) |-> FALSE]

(***************************************************************************)
(* State                                                                   *)
(***************************************************************************)
VARIABLES
    variant,       \* which version of the component is running
    hasDetector,   \* window.BarcodeDetector is available
    clock,         \* the value Date.now() returns
    localStorage,  \* key -> NULL (absent) or Some(text)
    progress,      \* useState: station id -> boolean
    completeAt,    \* useState: NULL or Some(milliseconds)
    active,        \* useState
    granted,       \* useState: "null", "true" or "false"
    error,         \* useState: "null" or the message
    lastPayload,   \* useState: NULL or Some(payload)
    usingDetector, \* useState
    srcObject,     \* videoRef.current.srcObject: 0 or the run whose stream it is
    runs,          \* the runs of the useEffect([active]) effect of this page
    last,          \* "reset" when the Reset button was the last of the page loads,
                   \* scans and resets so far, "other" otherwise
    scenario,      \* how many scans of the end-to-end scenario the detection loop
                   \* has delivered, and nothing else; -1 once anything else happened
    loopDecoded,   \* ids of the station codes the detection loop has decoded
    arg,           \* validatePayload alone: the payload it is called with
    match,         \* validatePayload alone: "none" before the call, then its result
    zone,          \* completionToken alone: minutes the host's local time is
                   \* ahead of UTC
    token          \* completionToken alone: "none" before the useMemo callback
                   \* has run, then its result

vars == <<variant, hasDetector, clock, localStorage, progress, completeAt,
          active, granted, error, lastPayload, usingDetector, srcObject, runs,
          last, scenario, loopDecoded, arg, match, zone, token>>

CameraError == "Camera access failed"
LibraryError == "Scanner library failed to load. Try a newer browser."

\* loopDecoded is recorded from the first load on a fresh store for as long
\* as the detection loop is the only thing that acts on the quest: it stops
\* being recorded once a button is pressed or the page is reloaded
Interrupted == {"interrupted"}

\* One run of the effect: its `stop` flag, its `zxingReader` ("none" for
\* null, "allocated", "reset"), where its asynchronous chain stands, the
\* stream its getUserMedia returned, and the values of the render it was
\* created in, which its tick and onDetected close over.
\*   pc: "getUserMedia", "play" : startCamera awaits
\*       "import"               : loopZXing awaits the dynamic import
\*       "scheduled"            : tick is queued (requestAnimationFrame / setTimeout)
\*       "decoding"             : tick awaits detect / decodeOnceFromVideoElement
\*       "ended"                : nothing of the run is pending any more
\* the progress and completeAt of a closure are read by onDetected only, and
\* a run whose tick returns at its first line never calls it: what such a
\* run captured is not kept
Forget(run) == [run EXCEPT !.progress = cleared(variant), !.completeAt = NULL]

\* a faulty effect body whose loop sees the `active` of the render before
\* the toggle
NewRun_staleActive ==
    LET run == [stop |-> FALSE, reader |-> "none",
                pc |-> "getUserMedia", stream |-> "none",
                progress |-> progress', completeAt |-> completeAt',
                active |-> active]
    IN  IF run.active THEN run ELSE Forget(run)

NewRun == LET run == [stop |-> FALSE, reader |-> "none",
                      pc |-> "getUserMedia", stream |-> "none",
                      progress |-> progress', completeAt |-> completeAt',
                      active |-> active']
          IN  IF run.active THEN run ELSE Forget(run)

\* nothing of the run is pending any more
Retire(run) == [Forget(run) EXCEPT !.pc = "ended"]

VideoLive == srcObject # 0 /\ runs[srcObject].stream = "live"

\* the payloads a camera frame or a simulate button delivers
ROOFTOP == OPENHOUSE \o <<"R","O","O","F","T","O","P">>

ScanPayloads(v) == {STATIONS(v)[i].code : i \in 1..Len(STATIONS(v))} \cup {ROOFTOP}

completedCount == Cardinality({k \in DOMAIN progress : progress[k]})

allDone == completedCount = Len(STATIONS(variant))

\* completionToken is "" exactly when completeAt is falsy
completionTokenEmpty == completeAt = NULL

(***************************************************************************)
(* Initial state: first page load on a fresh store                         *)
(***************************************************************************)
\* the useState initialisers
\* a faulty initialiser: the stored timestamp is not read
initCompleteAt_ignoresStore(ls) == NULL

initCompleteAt(ls) ==
    IF ls[LS_KEY_COMPLETED] # NULL /\ ls[LS_KEY_COMPLETED][1] # <<>>
    THEN Some(Number(ls[LS_KEY_COMPLETED][1]))
    ELSE NULL

initProgress(v, ls) ==
    IF ls[LS_KEY_PROGRESS] # NULL /\ ls[LS_KEY_PROGRESS][1] # <<>>
    THEN JSONparse(ls[LS_KEY_PROGRESS][1])
    ELSE cleared(v)

InitPage ==
    /\ variant \in Variants
    /\ hasDetector \in BOOLEAN
    /\ clock = 1
    /\ localStorage = [k \in LsKeys |-> NULL]
    /\ progress = initProgress(variant, localStorage)
    /\ completeAt = initCompleteAt(localStorage)
    /\ active = TRUE
    /\ granted = "null"
    /\ error = "null"
    /\ lastPayload = NULL
    /\ usingDetector = FALSE
    /\ srcObject = 0
    /\ runs = << [stop |-> FALSE, reader |-> "none",
                  pc |-> "getUserMedia", stream |-> "none",
                  progress |-> progress, completeAt |-> completeAt, active |-> active] >>
    /\ last = "other"
    /\ scenario = 0
    /\ loopDecoded = {}

Init ==
    /\ InitPage
    /\ arg = <<>>
    /\ match = "none"
    /\ zone = 0
    /\ token = "none"

(***************************************************************************)
(* onDetected, resetProgress                                               *)
(***************************************************************************)
\* the scans of the end-to-end scenario, as indices into the registry
ScenarioScans == <<1, 2, 1, 3>>

ScenarioAfterScan(src, id) ==
    IF /\ src = "camera"
       /\ scenario \in 0..(Len(ScenarioScans) - 1)
       /\ Len(STATIONS(variant)) >= 3
       /\ id = STATIONS(variant)[ScenarioScans[scenario + 1]].id
    THEN scenario + 1
    ELSE -1

\* markStationAsComplete: the functional update reads the latest state
markStationAsComplete(prev, stationId) == SpreadTrue(prev, stationId)

\* the progress object onDetected hands to React and to localStorage:
\* the jsx version stores `updated`, built from the progress of its closure;
\* the app version stores the functional update of the latest state
StoredProgress(cp, id) ==
    IF variant = "jsx" THEN SpreadTrue(cp, id)
    ELSE markStationAsComplete(progress, id)

\* `if (!progress[id])` in onDetected
notYetComplete(cp, id) == ~Truthy(cp, id)

\* `const updated = { ...progress, [id]: true }` and
\* `const done = Object.values(updated).every(Boolean)` in onDetected
completes(cp, id) == everyBoolean(SpreadTrue(cp, id))

\* `if (done && !completeAt)` in onDetected
shouldStamp(done, cc) == done /\ cc = NULL

\* validatePayload on the payloads the scans deliver, computed once
RECURSIVE tabulate(_, _)
tabulate(v, ps) ==
    IF ps = {} THEN <<>>
    ELSE LET p == CHOOSE x \in ps : TRUE
         IN  (p :> validatePayload(v, p)) @@ tabulate(v, ps \ {p})

validated ==
    ("jsx" :> tabulate("jsx", ScanPayloads("jsx")))
        @@ ("app" :> tabulate("app", ScanPayloads("app")))

\* the values Date.now() can return: time does not run backwards
DateNow == clock..MaxClock

\* onDetected(payload, rect) of the render whose progress and completeAt
\* are cp and cc, called by src ("camera" or "button")
onDetected(src, cp, cc, payload) ==
    LET id    == validated[variant][payload]
        stamp == shouldStamp(completes(cp, id), cc)
    IN  \E now \in (IF id # NoMatch /\ notYetComplete(cp, id) /\ stamp
                    THEN DateNow ELSE {clock}) :
        /\ lastPayload' = Some(payload)
        /\ last' = "other"
        /\ scenario' = ScenarioAfterScan(src, id)
        /\ loopDecoded' = IF src # "camera" \/ loopDecoded = Interrupted THEN Interrupted
                          ELSE IF id # NoMatch THEN loopDecoded \cup {id}
                          ELSE loopDecoded
        /\ IF id # NoMatch /\ notYetComplete(cp, id)
           THEN /\ progress' = StoredProgress(cp, id)
                /\ completeAt' = IF stamp THEN Some(now) ELSE completeAt
                /\ clock' = IF stamp THEN now ELSE clock
                /\ localStorage' =
                     [localStorage EXCEPT
                        ![LS_KEY_PROGRESS] =
                            Some(JSONstringify(variant, StoredProgress(cp, id))),
                        ![LS_KEY_COMPLETED] =
                            IF stamp THEN Some(String(now)) ELSE @]
           ELSE UNCHANGED <<progress, completeAt, clock, localStorage>>

\* the simulate button of station i (jsx version) calls the onDetected of
\* the current render with the station's code
SimulateScan(i) ==
    /\ variant = "jsx"
    /\ i \in 1..Len(STATIONS(variant))
    /\ onDetected("button", progress, completeAt, STATIONS(variant)[i].code)
    /\ UNCHANGED <<variant, hasDetector, arg, match, zone, token, active, granted, error,
                   usingDetector, srcObject, runs>>

\* a faulty resetProgress: without `localStorage.removeItem(LS_KEY_COMPLETED)`
resetProgress_keepsCompleted ==
    /\ progress' = cleared(variant)
    /\ completeAt' = NULL
    /\ localStorage' = [localStorage EXCEPT ![LS_KEY_PROGRESS] = NULL]
    /\ last' = "reset"
    /\ scenario' = -1
    /\ loopDecoded' = Interrupted
    /\ UNCHANGED <<variant, hasDetector, arg, match, zone, token, clock, active, granted, error,
                   lastPayload, usingDetector, srcObject, runs>>

\* resetProgress(): the Reset button
resetProgress ==
    /\ progress' = cleared(variant)
    /\ completeAt' = NULL
    /\ localStorage' = [localStorage EXCEPT ![LS_KEY_PROGRESS] = NULL,
                                            ![LS_KEY_COMPLETED] = NULL]
    /\ last' = "reset"
    /\ scenario' = -1
    /\ loopDecoded' = Interrupted
    /\ UNCHANGED <<variant, hasDetector, arg, match, zone, token, clock, active, granted, error,
                   lastPayload, usingDetector, srcObject, runs>>

(***************************************************************************)
(* The effect useEffect(..., [active]): camera and detection loop          *)
(***************************************************************************)
Pending(r, pc) == r \in 1..Len(runs) /\ runs[r].pc = pc

\* the variables only onDetected and resetProgress write
questVars == <<clock, localStorage, progress, completeAt, lastPayload,
               last, scenario, loopDecoded, arg, match, zone, token>>

\* startCamera() has returned: the .then callback picks the decoder and
\* loopBarcodeDetector queues its first tick / loopZXing starts its import
startLoop(r, run) ==
    /\ usingDetector' = hasDetector
    /\ runs' = [runs EXCEPT ![r] =
                  [run EXCEPT !.pc = IF hasDetector THEN "scheduled" ELSE "import"]]

\* await getUserMedia(...) resolves: the stream is attached to the video
GetUserMediaResolves(r) ==
    /\ Pending(r, "getUserMedia")
    /\ srcObject' = r
    /\ runs' = [runs EXCEPT ![r] = [@ EXCEPT !.pc = "play", !.stream = "live"]]
    /\ UNCHANGED <<variant, hasDetector, arg, match, zone, token, active, granted, error, usingDetector>>
    /\ UNCHANGED questVars

\* a faulty catch of startCamera that asks for the camera again
startCameraFails_retries(r) ==
    /\ Pending(r, "getUserMedia") \/ Pending(r, "play")
    /\ error' = CameraError
    /\ granted' = "false"
    /\ runs' = [runs EXCEPT ![r] = [@ EXCEPT !.pc = "getUserMedia"]]
    /\ UNCHANGED <<variant, hasDetector, arg, match, zone, token, active, srcObject,
                   usingDetector>>
    /\ UNCHANGED questVars

\* await getUserMedia(...) or await video.play() rejects: the catch block
startCameraFails(r) ==
    /\ Pending(r, "getUserMedia") \/ Pending(r, "play")
    /\ error' = CameraError
    /\ granted' = "false"
    /\ startLoop(r, runs[r])
    /\ UNCHANGED <<variant, hasDetector, arg, match, zone, token, active, srcObject>>
    /\ UNCHANGED questVars

\* await video.play() resolves
PlayResolves(r) ==
    /\ Pending(r, "play")
    /\ granted' = "true"
    /\ startLoop(r, runs[r])
    /\ UNCHANGED <<variant, hasDetector, arg, match, zone, token, active, error, srcObject>>
    /\ UNCHANGED questVars

\* a faulty head of tick: `if (stop) return;`
tickReturns_stopOnly(run) == run.stop

\* `if (stop || !active) return;` at the head of tick
tickReturns(run) == run.stop \/ ~run.active

\* the dynamic import of @zxing/browser resolves: the reader is created and
\* tick() is called at once
ImportResolves(r) ==
    /\ Pending(r, "import")
    /\ runs' = [runs EXCEPT ![r] =
                  LET run == [@ EXCEPT !.reader = "allocated"]
                  IN  IF tickReturns(run) THEN Retire(run)
                      ELSE [run EXCEPT !.pc = "decoding"]]
    /\ UNCHANGED <<variant, hasDetector, arg, match, zone, token, active, granted, error,
                   usingDetector, srcObject>>
    /\ UNCHANGED questVars

\* a faulty catch of loopZXing that reports the failure and queues a tick
ImportRejects_keepsLooping(r) ==
    /\ Pending(r, "import")
    /\ error' = LibraryError
    /\ runs' = [runs EXCEPT ![r] = [@ EXCEPT !.pc = "scheduled"]]
    /\ UNCHANGED <<variant, hasDetector, arg, match, zone, token, active, granted,
                   usingDetector, srcObject>>
    /\ UNCHANGED questVars

\* the dynamic import rejects: the catch block of loopZXing
ImportRejects(r) ==
    /\ Pending(r, "import")
    /\ error' = LibraryError
    /\ runs' = [runs EXCEPT ![r] = Retire(@)]
    /\ UNCHANGED <<variant, hasDetector, arg, match, zone, token, active, granted,
                   usingDetector, srcObject>>
    /\ UNCHANGED questVars

\* a queued tick runs, up to its await (the native tick awaits detect only
\* when video.readyState >= 2, and otherwise queues itself again)
tick(r) ==
    /\ Pending(r, "scheduled")
    /\ runs' = [runs EXCEPT ![r] =
                  IF tickReturns(@) THEN Retire(@)
                  ELSE IF hasDetector /\ ~VideoLive THEN @
                  ELSE [@ EXCEPT !.pc = "decoding"]]
    /\ UNCHANGED <<variant, hasDetector, arg, match, zone, token, active, granted, error,
                   usingDetector, srcObject>>
    /\ UNCHANGED questVars

\* requestAnimationFrame(tick) / setTimeout(tick, 150) at the end of tick
requeue(run) == LET queued == [run EXCEPT !.pc = "scheduled"]
                IN  IF tickReturns(queued) THEN Forget(queued) ELSE queued

\* a faulty tick that stops its loop once a code has been decoded
DecodeFinds_stopsLoop(r, payload) ==
    /\ Pending(r, "decoding")
    /\ VideoLive
    /\ payload \in ScanPayloads(variant)
    /\ onDetected("camera", runs[r].progress, runs[r].completeAt, payload)
    /\ runs' = [runs EXCEPT ![r] = Retire(@)]
    /\ UNCHANGED <<variant, hasDetector, arg, match, zone, token, active, granted, error,
                   usingDetector, srcObject>>

\* the awaited decode settles with the text of a code in view: onDetected
\* of the run's closure is called and the next tick is queued
DecodeFinds(r, payload) ==
    /\ Pending(r, "decoding")
    /\ VideoLive
    /\ payload \in ScanPayloads(variant)
    /\ onDetected("camera", runs[r].progress, runs[r].completeAt, payload)
    /\ runs' = [runs EXCEPT ![r] = requeue(@)]
    /\ UNCHANGED <<variant, hasDetector, arg, match, zone, token, active, granted, error,
                   usingDetector, srcObject>>

\* a faulty tick whose catch reports the failed pass
DecodeFindsNothing_reports(r) ==
    /\ Pending(r, "decoding")
    /\ runs' = [runs EXCEPT ![r] = requeue(@)]
    /\ error' = "Scan failed"
    /\ UNCHANGED <<variant, hasDetector, arg, match, zone, token, active, granted,
                   usingDetector, srcObject>>
    /\ UNCHANGED questVars

\* the awaited decode settles with no code, times out or throws: the next
\* tick is queued
DecodeFindsNothing(r) ==
    /\ Pending(r, "decoding")
    /\ runs' = [runs EXCEPT ![r] = requeue(@)]
    /\ UNCHANGED <<variant, hasDetector, arg, match, zone, token, active, granted, error,
                   usingDetector, srcObject>>
    /\ UNCHANGED questVars

\* the cleanup the effect returned, applied to the runs of the page
cleanup(rs) ==
    [i \in 1..Len(rs) |->
        LET run == [rs[i] EXCEPT
                      !.stop = IF i = Len(rs) THEN TRUE ELSE @,
                      !.reader = IF i = Len(rs) /\ @ = "allocated" THEN "reset" ELSE @,
                      !.stream = IF i = srcObject /\ @ = "live" THEN "stopped" ELSE @]
        IN  IF run.stop /\ run.pc # "decoding" THEN Forget(run) ELSE run]

\* the Pause Camera / Resume Camera button of the jsx version: setActive,
\* then React runs the cleanup of the effect and the effect again, whose
\* startCamera() begins with setError(null)
setActive ==
    /\ variant = "jsx"
    /\ active' = ~active
    /\ error' = "null"
    /\ UNCHANGED <<progress, completeAt>>
    /\ runs' = Append(cleanup(runs), NewRun)
    /\ scenario' = -1
    /\ loopDecoded' = Interrupted
    /\ last' = last
    /\ UNCHANGED <<variant, hasDetector, arg, match, zone, token, clock, localStorage, granted,
                   lastPayload, usingDetector, srcObject>>

\* the button pressed while the page has run the effect fewer than MaxRuns times
ToggleActive == Len(runs) < MaxRuns /\ setActive

\* the page is loaded again: the component is constructed from localStorage
Reload ==
    /\ progress' = initProgress(variant, localStorage)
    /\ completeAt' = initCompleteAt(localStorage)
    /\ active' = TRUE
    /\ granted' = "null"
    /\ error' = "null"
    /\ lastPayload' = NULL
    /\ usingDetector' = FALSE
    /\ srcObject' = 0
    /\ runs' = <<NewRun>>
    /\ scenario' = -1
    /\ loopDecoded' = Interrupted
    /\ last' = "other"
    /\ UNCHANGED <<variant, hasDetector, arg, match, zone, token, clock, localStorage>>

\* the detection loop of the current run of the effect has been started and
\* the callbacks of the earlier runs have ended
LoopStarted == /\ runs[Len(runs)].pc \in {"scheduled", "decoding", "ended"}
               /\ \A r \in 1..(Len(runs) - 1) : runs[r].pc = "ended"

\* The behaviours in which the camera is granted, the scanner library loads
\* and Pause / Resume is pressed only once the detection loop of the current
\* run has been started and the earlier runs have ended.
Next ==
    \/ \E r \in 1..MaxRuns : GetUserMediaResolves(r)
    \/ \E r \in 1..MaxRuns : PlayResolves(r)
    \/ \E r \in 1..MaxRuns : ImportResolves(r)
    \/ \E r \in 1..MaxRuns : tick(r)
    \/ \E r \in 1..MaxRuns : \E payload \in ScanPayloads(variant) : DecodeFinds(r, payload)
    \/ \E r \in 1..MaxRuns : DecodeFindsNothing(r)
    \/ \E i \in 1..MaxStations : SimulateScan(i)
    \/ resetProgress
    \/ LoopStarted /\ ToggleActive
    \/ Reload

Spec == Init /\ [][Next]_vars

\* The detection loop on its own: the page is loaded once and no button is
\* pressed.  The promises of startCamera and of the dynamic import settle, and
\* the callbacks requestAnimationFrame and setTimeout queue are run: the
\* event loop runs every task that stays queued.
NextLoop ==
    \/ \E r \in 1..MaxRuns : GetUserMediaResolves(r)
    \/ \E r \in 1..MaxRuns : PlayResolves(r)
    \/ \E r \in 1..MaxRuns : ImportResolves(r)
    \/ \E r \in 1..MaxRuns : tick(r)
    \/ \E r \in 1..MaxRuns : \E payload \in ScanPayloads(variant) : DecodeFinds(r, payload)
    \/ \E r \in 1..MaxRuns : DecodeFindsNothing(r)

SpecLoop == Init /\ [][NextLoop]_vars /\ WF_vars(NextLoop)

\* One run of the effect with everything that can go wrong in it: the camera
\* request or play() rejects, the scanner library fails to load, a decode
\* finds a station's code, a code of no station or nothing.
NextErrors ==
    \/ NextLoop
    \/ \E r \in 1..MaxRuns : startCameraFails(r)
    \/ \E r \in 1..MaxRuns : ImportRejects(r)

SpecErrors == Init /\ [][NextErrors]_vars

(***************************************************************************)
(* The camera on its own: no code comes into view, Pause / Resume is       *)
(* pressed at any moment, and the camera request, play() and the dynamic   *)
(* import may fail                                                         *)
(***************************************************************************)
CameraRuns == 1..MaxCameraRuns

PressPauseResume == Len(runs) < MaxCameraRuns /\ setActive

NextCamera ==
    \/ \E r \in CameraRuns : GetUserMediaResolves(r)
    \/ \E r \in CameraRuns : startCameraFails(r)
    \/ \E r \in CameraRuns : PlayResolves(r)
    \/ \E r \in CameraRuns : ImportResolves(r)
    \/ \E r \in CameraRuns : ImportRejects(r)
    \/ \E r \in CameraRuns : tick(r)
    \/ \E r \in CameraRuns : DecodeFindsNothing(r)
    \/ PressPauseResume

SpecCamera == Init /\ [][NextCamera]_vars

\* The camera effect when every request is granted and every module load
\* succeeds: the browser settles each pending promise and fires each queued
\* callback of every run at some time (weak fairness per run and callback);
\* the visitor may press the Pause / Resume button at any time, or never.
NextResume ==
    \/ \E r \in CameraRuns : GetUserMediaResolves(r)
    \/ \E r \in CameraRuns : PlayResolves(r)
    \/ \E r \in CameraRuns : ImportResolves(r)
    \/ \E r \in CameraRuns : tick(r)
    \/ \E r \in CameraRuns : DecodeFindsNothing(r)
    \/ PressPauseResume

SpecResume ==
    /\ Init
    /\ [][NextResume]_vars
    /\ \A r \in CameraRuns :
          /\ WF_vars(GetUserMediaResolves(r))
          /\ WF_vars(PlayResolves(r))
          /\ WF_vars(ImportResolves(r))
          /\ WF_vars(tick(r))
          /\ WF_vars(DecodeFindsNothing(r))

(***************************************************************************)
(* validatePayload on its own, over a set of test payloads                 *)
(***************************************************************************)
\* the codes the test payloads are derived from: the registered codes and
\* an unregistered one
BaseCodes == {STATIONS_jsx[i].code : i \in 1..Min(Len(STATIONS_jsx), MaxStations)}
             \cup {ROOFTOP}

\* ":" written "\:" as some QR encoders do
RECURSIVE escapeColon(_)
escapeColon(s) == IF s = <<>> THEN <<>>
                  ELSE (IF s[1] = ":" THEN <<"\\", ":">> ELSE <<s[1]>>)
                       \o escapeColon(Tail(s))

Padded(s) == {<<" ", " ">> \o s \o <<" ", " ">>, <<"\t">> \o s \o <<"\n">>, s \o <<" ">>}

DropLast(s) == SubSeq(s, 1, Len(s) - 1)

\* payloads that are a code up to case, escaping of the colon and padding
Spellings(c) ==
    LET cased   == {c, toLowerCase(c)}
        escaped == cased \cup {escapeColon(x) : x \in cased}
    IN  escaped \cup UNION {Padded(x) : x \in escaped}

\* payloads that are not a code: a proper prefix, a proper extension, a
\* substring, near misses, a doubly escaped colon, the empty payload
NearMisses(c) ==
    { DropLast(c), c \o <<"X">>, Tail(c), SubSeq(c, Len(OPENHOUSE) + 1, Len(c)),
      DropLast(c) \o <<"_">>, OPENHOUSE \o <<" ">> \o SubSeq(c, Len(OPENHOUSE) + 1, Len(c)),
      DropLast(OPENHOUSE) \o <<"\\", "\\", ":">> \o SubSeq(c, Len(OPENHOUSE) + 1, Len(c)),
      <<"X">> \o c, <<>>, <<" ">> }

TestPayloads == UNION {Spellings(c) \cup NearMisses(c) : c \in BaseCodes}

InitValidate ==
    /\ InitPage
    /\ arg \in TestPayloads
    /\ match = "none"
    /\ zone = 0
    /\ token = "none"

\* one call validatePayload(arg)
Validate ==
    /\ match = "none"
    /\ match' = validatePayload(variant, arg)
    /\ UNCHANGED <<variant, hasDetector, clock, localStorage, progress,
                   completeAt, active, granted, error, lastPayload, usingDetector,
                   srcObject, runs, last, scenario, loopDecoded, arg,
                   zone, token>>

NextValidate == Validate

SpecValidate == InitValidate /\ [][NextValidate]_vars

(***************************************************************************)
(* completionToken alone                                                   *)
(***************************************************************************)
\* A time value, as Date holds it: the whole days since 1970-01-01T00:00Z
\* and the milliseconds into that day.
Time(day, ms) == [day |-> day, ms |-> ms]

\* `!completeAt`: null and the number 0 are falsy
Falsy(cAt) == cAt = NULL \/ cAt[1] = Time(0, 0)

\* c.charCodeAt(0) for the characters of a stamp and of the station ids
charCode(c) ==
    CASE c = " " -> 32
      [] c = "-" -> 45
      [] c = ":" -> 58
      [] IndexOf(c, Digits) # 0 -> 47 + IndexOf(c, Digits)
      [] OTHER -> 64 + IndexOf(c, UpperCase)

\* n.toString(36)
Digits36 == Digits \o LowerCase

RECURSIVE toString36(_)
toString36(n) == IF n < 36 THEN <<Digits36[n + 1]>>
                 ELSE toString36(n \div 36) \o <<Digits36[(n % 36) + 1]>>

\* s.padStart(n, "0")
RECURSIVE padStart(_, _)
padStart(s, n) == IF Len(s) >= n THEN s ELSE padStart(<<"0">> \o s, n)

\* `const pad = (n) => n.toString().padStart(2, "0")`
pad(n) == padStart(String(n), 2)

\* The local-time getters of Date on a host whose clock is z minutes ahead
\* of UTC.
localMinutes(d, z) == (d.ms \div 60000) + z

localDay(d, z) == d.day + (localMinutes(d, z) + 1440) \div 1440 - 1

minuteOfDay(d, z) == (localMinutes(d, z) + 1440) % 1440

getHours(d, z) == minuteOfDay(d, z) \div 60

getMinutes(d, z) == minuteOfDay(d, z) % 60

\* the civil date of a day number (proleptic Gregorian calendar)
civil(days) ==
    LET zd  == days + 719468
        era == zd \div 146097
        doe == zd - era * 146097
        yoe == (doe - doe \div 1460 + doe \div 36524 - doe \div 146096) \div 365
        doy == doe - (365 * yoe + yoe \div 4 - yoe \div 100)
        mp  == (5 * doy + 2) \div 153
        m   == IF mp < 10 THEN mp + 3 ELSE mp - 9
    IN  [year  |-> yoe + era * 400 + (IF m <= 2 THEN 1 ELSE 0),
         month |-> m,
         date  |-> doy - (153 * mp + 2) \div 5 + 1]

getFullYear(d, z) == civil(localDay(d, z)).year

\* January is 0
getMonth(d, z) == civil(localDay(d, z)).month - 1

getDate(d, z) == civil(localDay(d, z)).date

\* d.getTime().toString(36): the milliseconds since the epoch,
\* day * 86400000 + ms, written in base 36. The number is held as three
\* groups of three base-36 digits (86400000 = 1851 * 36^3 + 39744).
Group == 46656

getTime36(d) ==
    LET low == d.day * 39744 + d.ms
        mid == d.day * 1851 + low \div Group
        hi  == mid \div Group
    IN  IF hi > 0
        THEN toString36(hi) \o padStart(toString36(mid % Group), 3)
                            \o padStart(toString36(low % Group), 3)
        ELSE IF mid > 0
        THEN toString36(mid) \o padStart(toString36(low % Group), 3)
        ELSE toString36(low)

\* `${d.getFullYear()}-${pad(d.getMonth() + 1)}-${pad(d.getDate())}
\*   ${pad(d.getHours())}:${pad(d.getMinutes())}`
stamp(d, z) ==
    String(getFullYear(d, z)) \o <<"-">> \o pad(getMonth(d, z) + 1) \o <<"-">>
        \o pad(getDate(d, z)) \o <<" ">> \o pad(getHours(d, z)) \o <<":">>
        \o pad(getMinutes(d, z))

\* the characters of s.id: every code is OPENHOUSE followed by the id
idChars(s) == SubSeq(s.code, Len(OPENHOUSE) + 1, Len(s.code))

\* `STATIONS.map((s) => s.id[0]).join("")`
ids(v) == [i \in 1..Len(STATIONS(v)) |-> idChars(STATIONS(v)[i])[1]]

\* `Array.from(ids + stamp).reduce((a, c) => a + c.charCodeAt(0), 0)`
RECURSIVE reduceCharCodes(_)
reduceCharCodes(s) == IF s = <<>> THEN 0
                      ELSE charCode(Head(s)) + reduceCharCodes(Tail(s))

\* a faulty checksum, reduced modulo 1000
check_mod1000(v, d, z) ==
    toUpperCase(toString36(reduceCharCodes(ids(v) \o stamp(d, z)) % 1000))

\* `(... % 997).toString(36).toUpperCase()`
check(v, d, z) ==
    toUpperCase(toString36(reduceCharCodes(ids(v) \o stamp(d, z)) % 997))

\* the useMemo callback of completionToken
completionToken(v, cAt, z) ==
    IF Falsy(cAt) THEN <<>>
    ELSE <<"O", "H", "Q", "-">> \o check(v, cAt[1], z) \o <<"-">>
             \o toUpperCase(getTime36(cAt[1]))

\* hosts in Singapore, on UTC and in New York (winter)
TimeZones == {480, 0, -300}

\* 2024-02-29T23:59:59.999Z, 2025-12-31T16:30:00.123Z,
\* 2026-11-03T00:05:07.000Z, 2027-01-01T00:00:00.000Z
TestTimes == {Time(19782, 86399999), Time(20453, 59400123),
              Time(20760, 307000), Time(20819, 0)}

ProgressMaps(v) == [StationIds(v) -> BOOLEAN]

InitToken ==
    /\ InitPage
    /\ arg = <<>>
    /\ match = "none"
    /\ zone \in TimeZones
    /\ token = "none"

\* a render with some progress map and completion timestamp: the useMemo
\* callback runs
ComputeToken ==
    /\ token = "none"
    /\ progress' \in ProgressMaps(variant)
    /\ completeAt' \in {NULL} \cup {Some(t) : t \in TestTimes}
    /\ token' = completionToken(variant, completeAt', zone)
    /\ UNCHANGED <<variant, hasDetector, clock, localStorage, active, granted,
                   error, lastPayload, usingDetector, srcObject, runs, last,
                   scenario, loopDecoded, arg, match, zone>>

NextToken == ComputeToken

SpecToken == InitToken /\ [][NextToken]_vars

(***************************************************************************)
(* Progress state machine: C1 .. C8                                        *)
(***************************************************************************)
Registry == STATIONS(variant)

\* a step in which the detection loop decodes the code of station i, and
\* one in which its simulate button is pressed
CameraScan(i) == \E r \in 1..MaxRuns : DecodeFinds(r, Registry[i].code)

ScanOf(i) == CameraScan(i) \/ SimulateScan(i)

\* C1 as stated: a scan of the code of a station S whose flag is false, by
\* the detection loop or by the simulate button, leaves S true and every
\* other station's flag as it was just before the scan.
C1_AsStated ==
    [][\A i \in 1..Len(Registry) :
          (ScanOf(i) /\ ~Truthy(progress, Registry[i].id)) =>
              /\ Truthy(progress', Registry[i].id)
              /\ \A k \in StationIds(variant) \ {Registry[i].id} :
                    Truthy(progress', k) = Truthy(progress, k)]_vars

\* C2 as stated: in every reachable state completeAt is non-null if and only
\* if every station of the registry is marked complete.
C2_AsStated ==
    completeAt # NULL <=> (\A k \in StationIds(variant) : Truthy(progress, k))

\* C3 as stated: once completeAt is set, no step other than resetProgress
\* changes it or the persisted ohq_completed_v1 entry.
C3_AsStated ==
    [][(completeAt # NULL /\ ~resetProgress) =>
          /\ completeAt' = completeAt
          /\ localStorage'[LS_KEY_COMPLETED] = localStorage[LS_KEY_COMPLETED]]_vars

\* C4 as stated: a scan of a station that is already marked complete changes
\* neither the progress map, nor completeAt, nor the two persisted entries.
C4_AsStated ==
    [][\A i \in 1..Len(Registry) :
          (ScanOf(i) /\ Truthy(progress, Registry[i].id)) =>
              UNCHANGED <<progress, completeAt, localStorage>>]_vars

\* C5 as stated: when onDetected applies a scan, the `done` it computes is
\* the all-complete predicate of the progress map as it stands after the
\* update of that scan.
C5_AsStated ==
    [][\A i \in 1..Len(Registry) :
          /\ \A r \in 1..MaxRuns :
                (DecodeFinds(r, Registry[i].code)
                   /\ notYetComplete(runs[r].progress, Registry[i].id)) =>
                      (completes(runs[r].progress, Registry[i].id)
                         <=> everyBoolean(progress'))
          /\ (SimulateScan(i) /\ notYetComplete(progress, Registry[i].id)) =>
                (completes(progress, Registry[i].id) <=> everyBoolean(progress'))]_vars

\* C6: resetProgress leaves every station's flag false, completeAt null and
\* both keys absent from localStorage, whatever the state before; this is
\* what the component shows, and what a reload would read, until the next
\* scan or reload (Pause / Resume in between changes none of it).
C6_Reset ==
    last = "reset" =>
        /\ DOMAIN progress = StationIds(variant)
        /\ \A k \in StationIds(variant) : progress[k] = FALSE
        /\ completeAt = NULL
        /\ localStorage[LS_KEY_PROGRESS] = NULL
        /\ localStorage[LS_KEY_COMPLETED] = NULL
        /\ initProgress(variant, localStorage) = progress
        /\ initCompleteAt(localStorage) = NULL
        /\ completedCount = 0

\* Reset has been pressed after a completion timestamp had been recorded at
\* a later time than the first (stations had been scanned, the quest had
\* been completed and both keys had been written)
C6_Witness ==
    /\ last = "reset"
    /\ clock > 1
    /\ lastPayload # NULL

\* C7 as stated: on a 3-station registry and a fresh store, after the
\* detection loop has delivered the scans A, B, A, C completedCount reads
\* 1, 2, 2, 3 and completeAt is null after each of the first three scans and
\* set after the scan of C.
ScenarioCounts == <<1, 2, 2, 3>>

C7_AsStated ==
    (Len(Registry) = 3 /\ scenario \in 1..Len(ScenarioScans)) =>
        /\ completedCount = ScenarioCounts[scenario]
        /\ completeAt # NULL <=> scenario = Len(ScenarioScans)

\* C8 as stated: from a fresh store, with the camera granted, detection
\* active and no button pressed, if the detection loop comes to have decoded
\* the code of every station, then eventually all stations are shown
\* complete and the completion token is not empty.
C8_AsStated ==
    <>(loopDecoded = StationIds(variant)) => <>(allDone /\ ~completionTokenEmpty)

(***************************************************************************)
(* Payload validator: C9, C10                                              *)
(***************************************************************************)
Called == match # "none"

LIBRARY == OPENHOUSE \o <<"L","I","B","R","A","R","Y">>

\* the three spellings of the library code the specification lists
LibrarySpellings ==
    { LIBRARY,
      <<" ", " ">> \o toLowerCase(LIBRARY) \o <<" ", " ">>,
      escapeColon(LIBRARY) }

\* a payload equals a code after unescaping backslash-colon, trimming and
\* ignoring letter case
EqualUpToSpelling(payload, code) ==
    toUpperCase(trim(unescapeColon(payload))) = toUpperCase(code)

NormalPayload(v, payload) ==
    IF v = "jsx" THEN trim(payload) ELSE toUpperCase(trim(unescapeColon(payload)))

NormalCode(v, code) == IF v = "jsx" THEN trim(code) ELSE toUpperCase(trim(code))

\* C10: validatePayload returns station S only if the normalized payload is,
\* as a whole string, S's normalized code; no other station's code equals it;
\* and a proper prefix, a proper extension, a substring or a near miss of a
\* code resolves to no match.
C10_WholeStringMatch ==
    Called =>
        /\ match # NoMatch =>
              \E i \in 1..Len(Registry) :
                 /\ match = Registry[i].id
                 /\ NormalPayload(variant, arg) = NormalCode(variant, Registry[i].code)
                 /\ \A j \in 1..Len(Registry) :
                       NormalPayload(variant, arg) = NormalCode(variant, Registry[j].code)
                          => j = i
        /\ (\E c \in BaseCodes : arg \in NearMisses(c)) => match = NoMatch

\* a proper extension of a registered code has been validated
C10_Witness ==
    /\ arg = Registry[1].code \o <<"X">>
    /\ match = NoMatch

(***************************************************************************)
(* Unmatched payloads, persistence and reload: C11 .. C13                  *)
(***************************************************************************)
\* the codes of the registry
RegisteredCodes == {Registry[i].code : i \in 1..Len(Registry)}

\* C11: a detection whose payload is no station's code leaves the progress
\* map, completeAt, both persisted entries and the error message unchanged
\* (only lastPayload may change).
C11_Unmatched ==
    [][\A payload \in ScanPayloads(variant) \ RegisteredCodes :
          \A r \in 1..MaxRuns :
             (lastPayload' = Some(payload) /\ DecodeFinds(r, payload))
                 => UNCHANGED <<progress, completeAt, localStorage, error>>]_vars

\* the unregistered code has been detected after the quest had been
\* completed
C11_Witness ==
    /\ lastPayload = Some(ROOFTOP)
    /\ completeAt # NULL
    /\ localStorage[LS_KEY_COMPLETED] # NULL

\* C12: after every scan that changes the progress map, the persisted
\* ohq_progress_v1 entry reads back as the map as it stands after the scan.
C12_WriteThrough ==
    [][\A i \in 1..Len(Registry) :
          (/\ progress' # progress
           /\ lastPayload' = Some(Registry[i].code)
           /\ ScanOf(i)) =>
              /\ localStorage'[LS_KEY_PROGRESS] # NULL
              /\ JSONparse(localStorage'[LS_KEY_PROGRESS][1]) = progress']_vars

\* two stations have been scanned and the stored text reads back as the map
C12_Witness ==
    /\ completedCount = 2
    /\ lastPayload # NULL
    /\ localStorage[LS_KEY_PROGRESS] # NULL
    /\ JSONparse(localStorage[LS_KEY_PROGRESS][1]) = progress

\* C13: in every reachable state the useState initialisers, run on the
\* persistent store, return the progress map and the completeAt held in
\* memory: a reload changes neither.
C13_ReloadRoundTrip ==
    /\ initProgress(variant, localStorage) = progress
    /\ initCompleteAt(localStorage) = completeAt

\* the page has just been reloaded with every station complete and a
\* timestamp recorded: the effect of the new page closes over both
C13_Witness ==
    /\ Len(runs) = 1
    /\ runs[1].pc = "getUserMedia"
    /\ allDone
    /\ completeAt # NULL
    /\ runs[1].progress = progress
    /\ runs[1].completeAt = completeAt

(***************************************************************************)
(* Camera, pause and resume: C14 .. C20                                    *)
(***************************************************************************)
\* run r of the effect has been torn down: its cleanup has run
TornDown(r) == runs[r].stop

\* a decode pass (detector.detect / decodeOnceFromVideoElement) of run r is
\* started by this step
StartsDecode(r) ==
    /\ r \in 1..Len(runs) /\ r \in 1..Len(runs')
    /\ runs[r].pc # "decoding"
    /\ runs'[r].pc = "decoding"

\* nothing of run r is pending and the video element holds another stream:
\* no cleanup will reach the stream or the reader of run r any more
Unreachable(r) == runs[r].pc = "ended" /\ srcObject # r

\* C14 as stated: a run of the effect that has been torn down starts no
\* further decode pass, and once nothing of it is pending its reader, if one
\* was allocated, has been reset and the stream it acquired has been stopped.
C14_AsStated ==
    /\ [][\A r \in CameraRuns : (r \in 1..Len(runs) /\ TornDown(r)) => ~StartsDecode(r)]_vars
    /\ [](\A r \in 1..Len(runs) :
            (TornDown(r) /\ Unreachable(r)) =>
                /\ runs[r].reader # "allocated"
                /\ runs[r].stream # "live")

\* the runs of the effect whose stream has live tracks
LiveStreams == {r \in 1..Len(runs) : runs[r].stream = "live"}

\* C15 as stated: pausing does not release the camera: every step that
\* leaves detection paused (the press of Pause Camera, and every step taken
\* while paused) leaves live every track that was live before it.
C15_AsStated ==
    [][~active' => \A r \in LiveStreams : runs'[r].stream = "live"]_vars

\* C16 as stated: while detection is paused no camera track is live.
C16_AsStated ==
    ~active => LiveStreams = {}

\* C17: while detection is paused no decode pass is started, by any run of
\* the effect; a tick callback that fires while paused returns at once, and
\* a run whose tick has returned schedules nothing further (so each loop
\* fires at most one more tick after the pause).
C17_PausedLoop ==
    /\ [][~active => \A r \in CameraRuns : ~StartsDecode(r)]_vars
    /\ [][\A r \in CameraRuns : (~active /\ tick(r)) => runs'[r].pc = "ended"]_vars
    /\ [][\A r \in 1..Len(runs) : runs[r].pc = "ended" => runs'[r].pc = "ended"]_vars

\* detection is paused with a live video, and the queued ticks of the
\* native loops, of the run that was paused and of the run the pause started,
\* have fired and returned
C17_Witness ==
    /\ ~active
    /\ hasDetector
    /\ VideoLive
    /\ granted = "true"
    /\ Len(runs) = 2
    /\ \A r \in 1..Len(runs) : runs[r].pc = "ended"

\* C18: a decode that was in flight when detection was paused or the effect
\* was torn down, and that completes afterwards with a code, changes
\* neither progress, completeAt nor the persisted store.
C18_AsStated ==
    [][\A r \in 1..MaxRuns : \A payload \in ScanPayloads(variant) :
          (DecodeFinds(r, payload) /\ (runs[r].stop \/ ~active))
              => UNCHANGED <<progress, completeAt, localStorage>>]_vars

\* the resumed run of the effect is the current one and its loop is running
ResumedLoopRuns ==
    /\ Len(runs) > 2
    /\ runs[Len(runs)].active
    /\ ~runs[Len(runs)].stop
    /\ runs[Len(runs)].pc \in {"scheduled", "decoding"}

\* C19: when detection was paused and resumed, and stays resumed, then for
\* every interleaving of the pending callbacks a live stream ends up attached
\* to the video, the camera is signalled as granted, and the decode loop of
\* the resumed run keeps scheduling passes.
C19_Reacquired ==
    <>[](active /\ Len(runs) > 2)
        => <>[](VideoLive /\ granted = "true" /\ ResumedLoopRuns)

\* after a pause and a resume the stream of the resumed run is attached and
\* live, and its loop is inside a decode pass
C19_Witness ==
    /\ active
    /\ Len(runs) = 3
    /\ srcObject = 3
    /\ runs[3].stream = "live"
    /\ granted = "true"
    /\ runs[3].pc = "decoding"
    /\ ~runs[3].stop

\* the runs of the effect whose getUserMedia request is outstanding
CameraRequests == {r \in 1..Len(runs) : runs[r].pc = "getUserMedia"}

\* C20: when getUserMedia or play rejects, granted becomes false and the
\* error is a non-empty message; a camera request is issued only by a press
\* of the Pause / Resume button, never by the component on its own.
C20_Denied ==
    /\ [][\A r \in CameraRuns :
            startCameraFails(r)
                => granted' = "false" /\ error' \notin {"null", ""}]_vars
    /\ [][CameraRequests' \subseteq CameraRequests \/ active' # active]_vars

\* a camera request has failed and none is outstanding: the loops run, or
\* have ended, without a stream
C20_Witness ==
    /\ granted = "false"
    /\ error = CameraError
    /\ srcObject = 0
    /\ CameraRequests = {}
    /\ \A r \in 1..Len(runs) : runs[r].pc # "play"

(***************************************************************************)
(* Decoder strategy, loop scheduling and errors: C21 .. C28                *)
(***************************************************************************)
\* the runs of the effect whose loop has a tick queued or a decode awaited
LoopingRuns == {r \in 1..Len(runs) : runs[r].pc \in {"scheduled", "decoding"}}

\* C21: when the native detector is absent and the import of the fallback
\* library rejects, the error message is set, the loop of that run of the
\* effect is over without a decode pass ever queued in it, and the import is
\* not attempted again by that run.
C21_LoadFailure ==
    /\ [][\A r \in CameraRuns :
            ImportRejects(r) =>
                /\ ~hasDetector
                /\ error' \notin {"null", ""}
                /\ runs'[r].pc = "ended"
                /\ LoopingRuns' \subseteq LoopingRuns]_vars
    /\ [][\A r \in 1..Len(runs) :
            /\ runs[r].pc = "import" => runs'[r].pc \notin {"scheduled", "getUserMedia", "play"}
            /\ runs[r].pc = "ended" => runs'[r].pc = "ended"]_vars

\* the first run of the effect, neither paused nor torn down, has ended
\* because the library failed to load
C21_Witness ==
    /\ ~hasDetector
    /\ active
    /\ Len(runs) = 1
    /\ VideoLive
    /\ error = LibraryError
    /\ runs[1].pc = "ended"

(***************************************************************************)
(* The completion token: C22, C23                                          *)
(***************************************************************************)
\* C22 as stated: the token is empty exactly when there is no completion
\* timestamp, and otherwise it is determined by the timestamp and the
\* registry alone: every computation with the same timestamp and registry,
\* on whatever host and with whatever progress map, yields the same token.
C22_AsStated ==
    token # "none" =>
        /\ token = <<>> <=> completeAt = NULL
        /\ \A z \in TimeZones : completionToken(variant, completeAt, z) = token

\* the second of the fields of a token that "-" separates
checksumField(tok) ==
    LET rest == SubSeq(tok, 5, Len(tok))
        dash == CHOOSE i \in 1..Len(rest) :
                    rest[i] = "-" /\ \A j \in 1..(i - 1) : rest[j] # "-"
    IN  SubSeq(rest, 1, dash - 1)

\* the number a string of upper-case base-36 digits denotes
UpperDigits36 == Digits \o UpperCase

RECURSIVE parse36(_)
parse36(s) == IF s = <<>> THEN 0
              ELSE 36 * parse36(SubSeq(s, 1, Len(s) - 1))
                       + (IndexOf(s[Len(s)], UpperDigits36) - 1)

\* the sum of the character codes of the station initials, in registry
\* order, followed by the characters of the formatted stamp
SumOfCodes ==
    LET text == [i \in 1..Len(Registry) |-> idChars(Registry[i])[1]]
                    \o stamp(completeAt[1], zone)
        RECURSIVE upTo(_)
        upTo(n) == IF n = 0 THEN 0 ELSE upTo(n - 1) + charCode(text[n])
    IN  upTo(Len(text))

\* C23: the checksum field of a token is the sum of the character codes of
\* the station initials and the formatted stamp, modulo 997, written in
\* upper-case base 36: a number in 0..996 of at most two digits.
C23_Checksum ==
    (token # "none" /\ completeAt # NULL) =>
        LET field == checksumField(token)
        IN  /\ \A i \in 1..Len(field) : IndexOf(field[i], UpperDigits36) # 0
            /\ parse36(field) = SumOfCodes % 997
            /\ parse36(field) \in 0..996
            /\ Len(field) \in 1..2
            /\ field = toUpperCase(toString36(SumOfCodes % 997))
            /\ Len(stamp(completeAt[1], zone)) = 16

\* a token whose sum of character codes exceeds 997 has been computed: the
\* reduction changes the number
C23_Witness ==
    /\ token # "none"
    /\ completeAt # NULL
    /\ SumOfCodes > 997
    /\ Len(checksumField(token)) = 1

(***************************************************************************)
(* The progress map: C24                                                   *)
(***************************************************************************)
\* C24: in every state reached by scans, resets and reloads the progress map
\* has exactly the station ids of the registry as its keys.
C24_OneEntryPerStation == DOMAIN progress = StationIds(variant)

\* the page has just been loaded again on a store that holds two completed
\* stations: the map comes from JSON.parse of the stored text
C24_Witness ==
    /\ completedCount = 2
    /\ localStorage[LS_KEY_PROGRESS] # NULL
    /\ lastPayload = NULL
    /\ Len(runs) = 1
    /\ runs[1].pc = "getUserMedia"
    /\ completeAt = NULL

(***************************************************************************)
(* One decoder at a time: C25, C26                                         *)
(***************************************************************************)
\* the runs of the effect whose loop started as the native loop, and as the
\* loop of the fallback library
NativeLoops == {r \in 1..Len(runs) : hasDetector /\ runs[r].pc \in {"scheduled", "decoding"}}

FallbackLoops == {r \in 1..Len(runs) : runs[r].pc = "import" \/ runs[r].reader # "none"}

\* the runs whose loop is inside a decode pass or has queued a tick that
\* will start one
DecodingLoops ==
    {r \in 1..Len(runs) :
        \/ runs[r].pc = "decoding"
        \/ runs[r].pc = "scheduled" /\ ~tickReturns(runs[r])}

\* C25 as stated: a run of the effect starts the native loop if and only if
\* BarcodeDetector is available and the fallback loop otherwise, never both;
\* and at no time, pause and resume included, are the loops of two runs
\* both in or about to start a decode pass.
C25_AsStated ==
    /\ NativeLoops # {} => hasDetector
    /\ FallbackLoops # {} => ~hasDetector
    /\ NativeLoops \cap FallbackLoops = {}
    /\ Cardinality(DecodingLoops) <= 1

\* the runs of the effect whose loop is awaiting a decode
InFlight == {r \in 1..Len(runs) : runs[r].pc = "decoding"}

\* C26 as stated: at any moment at most one decode attempt is in flight,
\* and no run starts a decode pass while the pass of another run, an
\* earlier one included, has not delivered its result.
C26_AsStated ==
    /\ [](Cardinality(InFlight) <= 1)
    /\ [][\A r \in CameraRuns : StartsDecode(r) => InFlight \subseteq {r}]_vars

(***************************************************************************)
(* The loop keeps going, and what sets the error: C27, C28                 *)
(***************************************************************************)
\* a step in which the awaited decode of run r settles, with a code or
\* without
DecodeSettles(r) ==
    \/ \E payload \in ScanPayloads(variant) : DecodeFinds(r, payload)
    \/ DecodeFindsNothing(r)

\* C27: while detection is active and the run of the effect is not torn
\* down, every decode pass that settles, with a station's code, with another
\* code or with nothing, leaves the next tick of its loop queued; the loop
\* never ends of its own accord and goes on starting passes for ever.
C27_KeepsLooping ==
    /\ [][\A r \in 1..MaxRuns :
            (Pending(r, "decoding") /\ ~tickReturns(runs[r]) /\ DecodeSettles(r))
                => runs'[r].pc = "scheduled"]_vars
    /\ [](\A r \in 1..Len(runs) : ~tickReturns(runs[r]) => runs[r].pc # "ended")
    /\ []<>(\E r \in 1..Len(runs) : runs[r].pc = "decoding")

\* the loop has decoded a station's code and then a code of no station, and
\* its next tick is queued
C27_Witness ==
    /\ active
    /\ ~runs[1].stop
    /\ runs[1].pc = "scheduled"
    /\ lastPayload = Some(ROOFTOP)
    /\ completedCount >= 1

\* C28: the error message is set only by a failed camera acquisition or a
\* failed load of the scanner library; a decode pass, whether it finds a
\* station's code for the first time or again, a code of no station, or
\* nothing, leaves it as it was.
C28_ErrorSources ==
    /\ [][(error' # error /\ error' # "null") =>
            \E r \in 1..MaxRuns : startCameraFails(r) \/ ImportRejects(r)]_vars
    /\ [][\A r \in 1..MaxRuns :
            (Pending(r, "decoding") /\ DecodeSettles(r)) => error' = error]_vars
    /\ [](error \in {"null", CameraError, LibraryError})

\* play() was rejected, and the loop has since decoded a station's code and
\* then a code of no station: the message is still the camera's
C28_Witness ==
    /\ error = CameraError
    /\ lastPayload = Some(ROOFTOP)
    /\ completedCount = 1
    /\ runs[1].pc = "scheduled"

(***************************************************************************)
(* Scans after a reset, and the order of scans: C29, C30                   *)
(***************************************************************************)
\* C29 as stated: the first scan after a reset leaves complete only the
\* station whose code was scanned, and records no completion timestamp:
\* a station that was complete before the reset is not complete again
\* without a scan of its own code.
C29_AsStated ==
    [][\A i \in 1..Len(Registry) :
          (/\ last = "reset"
           /\ lastPayload' = Some(Registry[i].code)
           /\ ScanOf(i)) =>
              /\ \A id \in StationIds(variant) :
                    Truthy(progress', id) => id = Registry[i].id
              /\ completeAt' = NULL
              /\ localStorage'[LS_KEY_COMPLETED] = NULL]_vars

\* the progress map, and the ohq_progress_v1 entry, that onDetected of a
\* render whose map is cp leaves when the code of station id is scanned
\* while the state holds the map p and the store holds st
progressAfter(p, cp, id) ==
    IF notYetComplete(cp, id)
    THEN IF variant = "jsx" THEN SpreadTrue(cp, id)
         ELSE markStationAsComplete(p, id)
    ELSE p

storedAfter(st, p, cp, id) ==
    IF notYetComplete(cp, id)
    THEN Some(JSONstringify(variant, progressAfter(p, cp, id)))
    ELSE st

Complete(p) == {k \in DOMAIN p : p[k]}

\* two scans delivered by the detection loop of run r, first of a then of b
LoopScans(r, a, b) ==
    LET cp  == runs[r].progress
        p1  == progressAfter(progress, cp, a)
        st1 == storedAfter(localStorage[LS_KEY_PROGRESS], progress, cp, a)
    IN  [progress |-> progressAfter(p1, cp, b),
         stored   |-> storedAfter(st1, p1, cp, b)]

\* two presses of simulate buttons, first of a then of b: each press is
\* handled by the onDetected of the latest render
ButtonScans(a, b) ==
    LET p1  == progressAfter(progress, progress, a)
        st1 == storedAfter(localStorage[LS_KEY_PROGRESS], progress, progress, a)
    IN  [progress |-> progressAfter(p1, p1, b),
         stored   |-> storedAfter(st1, p1, p1, b)]

\* C30 as stated: in every reachable state, for any two stations a and b,
\* the scans of a then b leave the same progress map and the same persisted
\* ohq_progress_v1 as the scans of b then a, and the complete stations are
\* then those complete before together with a and b; whether the scans come
\* from a running detection loop or from the simulate buttons.
C30_AsStated ==
    \A a \in StationIds(variant) : \A b \in StationIds(variant) :
        /\ \A r \in 1..Len(runs) :
              runs[r].pc = "decoding" =>
                  /\ LoopScans(r, a, b) = LoopScans(r, b, a)
                  /\ Complete(LoopScans(r, a, b).progress)
                        = Complete(progress) \cup {a, b}
        /\ variant = "jsx" =>
              /\ ButtonScans(a, b) = ButtonScans(b, a)
              /\ Complete(ButtonScans(a, b).progress) = Complete(progress) \cup {a, b}

\* the maps above are the ones the scan steps produce
ScansAsComputed ==
    [][\A i \in 1..Len(Registry) :
          /\ \A r \in 1..MaxRuns :
                (lastPayload' = Some(Registry[i].code) /\ DecodeFinds(r, Registry[i].code)) =>
                    /\ progress' = progressAfter(progress, runs[r].progress, Registry[i].id)
                    /\ localStorage'[LS_KEY_PROGRESS]
                          = storedAfter(localStorage[LS_KEY_PROGRESS], progress,
                                        runs[r].progress, Registry[i].id)
          /\ (lastPayload' = Some(Registry[i].code) /\ SimulateScan(i)) =>
                    /\ progress' = progressAfter(progress, progress, Registry[i].id)
                    /\ localStorage'[LS_KEY_PROGRESS]
                          = storedAfter(localStorage[LS_KEY_PROGRESS], progress,
                                        progress, Registry[i].id)]_vars

====
